---- MODULE Spec2Model ----
(***************************************************************************)
(* Arc Raiders recipe calculator (src/flask_app.py): the item catalog, the *)
(* upgrade-tier functions, the one-level requirement expansion, the        *)
(* display record and the three JSON endpoints.                            *)
(*                                                                         *)
(* Strings that the code slices or concatenates (item identifiers, names,  *)
(* image paths) are sequences of one-character strings; the two literals   *)
(* "static/images/" and ".png" are single elements, which no identifier    *)
(* or file name of the model can spell out of characters.  A Python dict   *)
(* is a function whose DOMAIN is its key set, so `k in d` is               *)
(* k \in DOMAIN d and an empty dict is the function with empty domain.     *)
(***************************************************************************)
EXTENDS Integers, Sequences, FiniteSets, TLC

VARIABLES items, op, item_id, is_weapon, previous, weapon_info, start, steps,
          selected, requirements, response, info, is_base, round

vars == <<items, op, item_id, is_weapon, previous, weapon_info, start, steps,
          selected, requirements, response, info, is_base, round>>

(***************************************************************************)
(* Bounds of the model.                                                    *)
(***************************************************************************)
MaxLen == 5
MaxQty == 2
MaxPerUnit == 3
MaxRounds == 2

(***************************************************************************)
(* Python values.                                                          *)
(***************************************************************************)
\* None where the code returns a str or None; `if previous_level:` (line 85)
\* treats None and the empty string alike.
None == <<>>
\* None inside a JSON record whose other values are strings.
null == "None"
EmptyDict == <<>>

Chars == {"r", "_", "i", "v"}

RECURSIVE SeqsUpTo(_, _)
SeqsUpTo(S, n) ==
  IF n = 0 THEN {<<>>}
  ELSE LET shorter == SeqsUpTo(S, n - 1)
       IN shorter \cup {Append(s, c) : s \in {t \in shorter : Len(t) = n - 1}, c \in S}

Identifiers == SeqsUpTo(Chars, MaxLen)

\* str.endswith(suffix)
endswith(s, suffix) ==
  /\ Len(s) >= Len(suffix)
  /\ SubSeq(s, Len(s) - Len(suffix) + 1, Len(s)) = suffix

\* s[:-n] for n > 0: Python clamps the slice at the start of the string.
drop_last(s, n) == IF Len(s) >= n THEN SubSeq(s, 1, Len(s) - n) ELSE <<>>

Min(S) == CHOOSE m \in S : \A n \in S : m <= n

(***************************************************************************)
(* RecipeCalculator.get_previous_upgrade_level                             *)
(***************************************************************************)
\* upgrade_map with '_iii' mapped one tier too low.
upgrade_map_skips_a_tier ==
  << << <<"_", "i", "v">>, <<"_", "i", "i", "i">> >>,
     << <<"_", "i", "i", "i">>, <<"_", "i">> >>,
     << <<"_", "i", "i">>, <<"_", "i">> >> >>

\* The dict literal in its insertion order, which is the order the loop visits.
upgrade_map ==
  << << <<"_", "i", "v">>, <<"_", "i", "i", "i">> >>,
     << <<"_", "i", "i", "i">>, <<"_", "i", "i">> >>,
     << <<"_", "i", "i">>, <<"_", "i">> >> >>

get_previous_upgrade_level(id) ==
  LET hits == {k \in 1..Len(upgrade_map) : endswith(id, upgrade_map[k][1])}
  IN IF hits = {} THEN None
     ELSE LET k == Min(hits)
          IN drop_last(id, Len(upgrade_map[k][1])) \o upgrade_map[k][2]

(***************************************************************************)
(* RecipeCalculator.get_weapon_upgrade_info                                *)
(***************************************************************************)
upgrade_levels ==
  << << <<"_", "i">>, "I" >>,
     << <<"_", "i", "i">>, "II" >>,
     << <<"_", "i", "i", "i">>, "III" >>,
     << <<"_", "i", "v">>, "IV" >> >>

get_weapon_upgrade_info(id, eligible) ==
  IF ~eligible THEN [is_weapon_upgrade |-> FALSE]
  ELSE LET hits == {k \in 1..Len(upgrade_levels) : endswith(id, upgrade_levels[k][1])}
       IN IF hits = {} THEN [is_weapon_upgrade |-> FALSE]
          ELSE LET k == Min(hits)
                   suffix == upgrade_levels[k][1]
                   roman == upgrade_levels[k][2]
               IN [is_weapon_upgrade |-> TRUE,
                   base_name |-> drop_last(id, Len(suffix)),
                   upgrade_level |-> roman,
                   previous_level |-> IF suffix # <<"_", "i">> THEN roman ELSE null]

(***************************************************************************)
(* The tier functions on their own: any identifier, any eligibility flag.  *)
(***************************************************************************)
Idle ==
  /\ items = EmptyDict
  /\ selected = EmptyDict
  /\ requirements = EmptyDict
  /\ response = <<>>
  /\ info = EmptyDict
  /\ is_base = FALSE
  /\ round = 0

InitTier ==
  /\ Idle
  /\ op = "init"
  /\ item_id \in Identifiers
  /\ is_weapon \in BOOLEAN
  /\ previous = None
  /\ weapon_info = EmptyDict
  /\ start = item_id
  /\ steps = 0

PreviousUpgradeLevel ==
  /\ op = "init"
  /\ op' = "previous"
  /\ previous' = get_previous_upgrade_level(item_id)
  /\ UNCHANGED <<items, item_id, is_weapon, weapon_info, start, steps,
                 selected, requirements, response, info, is_base, round>>

\* The result is looked up in turn, as an expansion of the previous tier does.
FollowPrevious ==
  /\ op = "previous"
  /\ previous # None
  /\ item_id' = previous
  /\ previous' = get_previous_upgrade_level(previous)
  /\ steps' = steps + 1
  /\ UNCHANGED <<items, op, is_weapon, weapon_info, start,
                 selected, requirements, response, info, is_base, round>>

WeaponUpgradeInfo ==
  /\ op = "init"
  /\ op' = "tier"
  /\ weapon_info' = get_weapon_upgrade_info(item_id, is_weapon)
  /\ UNCHANGED <<items, item_id, is_weapon, previous, start, steps,
                 selected, requirements, response, info, is_base, round>>

NextTier == PreviousUpgradeLevel \/ FollowPrevious \/ WeaponUpgradeInfo

SpecTier == InitTier /\ [][NextTier]_vars

(***************************************************************************)
(* Item identifiers of the catalog models.                                 *)
(***************************************************************************)
wood == <<"w">>
plank == <<"p">>
table == <<"t">>
unknown_item == <<"x">>
rifle_i == <<"r", "_", "i">>
rifle_ii == <<"r", "_", "i", "i">>
rifle_iii == <<"r", "_", "i", "i", "i">>

\* dict.get(key, default)
get(d, key, default) == IF key \in DOMAIN d THEN d[key] ELSE default

\* Truth value of a dict: non-empty.
truthy(d) == DOMAIN d # {}

(***************************************************************************)
(* RecipeCalculator.is_base_resource                                       *)
(***************************************************************************)
\* The classifier with the early return of line 39 left out of account.
is_base_resource_known_only(id) ==
  LET item == get(items, id, EmptyDict)
      has_recipe == "recipe" \in DOMAIN item /\ truthy(item.recipe)
      has_upgrade_cost == "upgradeCost" \in DOMAIN item /\ truthy(item.upgradeCost)
  IN id \in DOMAIN items /\ ~(has_recipe \/ has_upgrade_cost)

is_base_resource(id) ==
  IF id \notin DOMAIN items THEN TRUE
  ELSE LET item == items[id]
           has_recipe == "recipe" \in DOMAIN item /\ truthy(item.recipe)
           has_upgrade_cost == "upgradeCost" \in DOMAIN item /\ truthy(item.upgradeCost)
       IN ~(has_recipe \/ has_upgrade_cost)

(***************************************************************************)
(* RecipeCalculator.get_direct_requirements                                *)
(***************************************************************************)
\* requirements[key] = amount: the assignment that forgets what was there.
overwrite(reqs, key, amount) ==
  [k \in DOMAIN reqs \cup {key} |-> IF k = key THEN amount ELSE reqs[k]]

\* requirements[key] += amount on a defaultdict(int).
add(reqs, key, amount) ==
  [k \in DOMAIN reqs \cup {key} |->
     IF k = key THEN get(reqs, key, 0) + amount ELSE reqs[k]]

RECURSIVE add_all(_, _, _, _)
\* for ingredient_id, ingredient_qty in cost.items(): requirements[...] += ...
add_all(reqs, cost, todo, quantity) ==
  IF todo = {} THEN reqs
  ELSE LET ingredient_id == CHOOSE k \in todo : TRUE
       IN add_all(add(reqs, ingredient_id, cost[ingredient_id] * quantity),
                  cost, todo \ {ingredient_id}, quantity)

\* The branch test of a body that looks at the recipe first.
uses_upgrade_cost_recipe_first(item) ==
  /\ "upgradeCost" \in DOMAIN item /\ truthy(item.upgradeCost)
  /\ ~("recipe" \in DOMAIN item /\ truthy(item.recipe))

\* Line 78: the upgrade-cost branch is tried first.
uses_upgrade_cost(item) == "upgradeCost" \in DOMAIN item /\ truthy(item.upgradeCost)

\* Lines 73-75: `item = self.items.get(item_id)` is truthy.  A loaded record
\* always holds its own id, so it is never an empty dict.
known(id) == id \in DOMAIN items

\* The upgrade branch without its second half.
upgrade_branch_without_previous(reqs, id, item, quantity) ==
  add_all(reqs, item.upgradeCost, DOMAIN item.upgradeCost, quantity)

\* Lines 79-86: the materials, then the previous tier of the weapon itself.
upgrade_branch(reqs, id, item, quantity) ==
  LET with_cost == add_all(reqs, item.upgradeCost, DOMAIN item.upgradeCost, quantity)
      previous_level == get_previous_upgrade_level(id)
  IN IF previous_level # None
     THEN add(with_cost, previous_level, quantity)
     ELSE with_cost

\* The recipe branch counting the units after the first.
recipe_branch_off_by_one(reqs, item, quantity) ==
  add_all(reqs, item.recipe, DOMAIN item.recipe, quantity - 1)

\* Lines 90-92.
recipe_branch(reqs, item, quantity) ==
  add_all(reqs, item.recipe, DOMAIN item.recipe, quantity)

\* One pass of the loop body, lines 73-92.
loop_body(reqs, id, quantity) ==
  IF ~known(id) THEN reqs
  ELSE LET item == items[id]
       IN IF uses_upgrade_cost(item) THEN upgrade_branch(reqs, id, item, quantity)
          ELSE IF "recipe" \in DOMAIN item /\ truthy(item.recipe)
          THEN recipe_branch(reqs, item, quantity)
          ELSE reqs

RECURSIVE expand_from(_, _, _)
\* The loop of line 72.  Addition commutes, so the order the dict is visited
\* in does not show in the result.
expand_from(reqs, todo, selection) ==
  IF todo = {} THEN reqs
  ELSE LET id == CHOOSE k \in todo : TRUE
       IN expand_from(loop_body(reqs, id, selection[id]), todo \ {id}, selection)

\* An expansion that goes on into the ingredients it found.
get_direct_requirements_two_levels(selection) ==
  LET first == expand_from(EmptyDict, DOMAIN selection, selection)
  IN IF first = EmptyDict THEN first ELSE expand_from(EmptyDict, DOMAIN first, first)

get_direct_requirements(selection) ==
  expand_from(EmptyDict, DOMAIN selection, selection)

(***************************************************************************)
(* RecipeCalculator.get_item_info                                          *)
(***************************************************************************)
images_dir == <<"static/images/">>
png == <<".png">>

\* The name field is a str or a dict of language code to str; the model tags
\* the two so that isinstance(name_data, dict) is a test of the tag.
is_dict(name_data) == "dict" \in DOMAIN name_data

resolve_name(item, id) ==
  IF "name" \notin DOMAIN item THEN id
  ELSE IF is_dict(item.name) THEN get(item.name.dict, "en", id)
  ELSE item.name.str

\* Lines 129-137 and 197-205: the same text in both callers.
resolve_image(item, id, tier) ==
  LET imageFilename == get(item, "imageFilename", <<>>)
  IN IF Len(imageFilename) > 0 THEN images_dir \o imageFilename
     ELSE IF tier.is_weapon_upgrade THEN images_dir \o tier.base_name \o png
     ELSE images_dir \o id \o png

level_map == [level \in {"II", "III", "IV"} |->
                IF level = "II" THEN "I" ELSE IF level = "III" THEN "II" ELSE "III"]

\* Line 126 with the test of line 182.
info_eligible_if_typed(item) == "type" \in DOMAIN item /\ item.type # "Modification"

\* Line 126: item.get('type', 'Unknown') != 'Modification'
info_eligible(item) == get(item, "type", "Unknown") # "Modification"

get_item_info(id) ==
  LET item == get(items, id, EmptyDict)
      tier == get_weapon_upgrade_info(id, info_eligible(item))
      result == [id |-> id,
                 name |-> resolve_name(item, id),
                 image |-> resolve_image(item, id, tier),
                 rarity |-> get(item, "rarity", "Common"),
                 type |-> get(item, "type", "Unknown")]
  IN IF tier.is_weapon_upgrade /\ tier.upgrade_level # "I"
     THEN result @@ [weapon_upgrade |-> TRUE,
                     upgrade_level |-> tier.upgrade_level,
                     required_level |-> get(level_map, tier.upgrade_level, "I")]
     ELSE result

(***************************************************************************)
(* sorted(..., key=...) on strings.                                        *)
(***************************************************************************)
code_point ==
  ("F" :> 70) @@ ("R" :> 82) @@ ("_" :> 95) @@ ("f" :> 102) @@ ("i" :> 105) @@
  ("p" :> 112) @@ ("r" :> 114) @@ ("t" :> 116) @@ ("v" :> 118) @@ ("w" :> 119) @@
  ("x" :> 120)

\* str.lower()
lower_char(c) == IF c = "F" THEN "f" ELSE IF c = "R" THEN "r" ELSE c
lower(s) == [k \in 1..Len(s) |-> lower_char(s[k])]

\* a < b on str: the first differing character decides, a proper prefix is less.
str_less(a, b) ==
  \E k \in 1..Len(b) :
    /\ \A j \in 1..(k - 1) : j <= Len(a) /\ a[j] = b[j]
    /\ \/ k = Len(a) + 1
       \/ k <= Len(a) /\ code_point[a[k]] < code_point[b[k]]

RECURSIVE sorted(_, _)
\* The orders sorted() can return for the keys K under the sort key `key`
\* (a function on K).  sorted() is stable: equal keys stay in the order the
\* dict was iterated in, which the model leaves open.
sorted(K, key) ==
  IF K = {} THEN {<<>>}
  ELSE UNION {{<<k>> \o rest : rest \in sorted(K \ {k}, key)} :
              k \in {m \in K : \A n \in K : ~str_less(key[n], key[m])}}

(***************************************************************************)
(* GET /api/items                                                          *)
(***************************************************************************)
\* Line 182: 'type' in item_data and item_data['type'] != 'Modification'
listing_eligible(item) == "type" \in DOMAIN item /\ item.type # "Modification"

listing_tier(id) == get_weapon_upgrade_info(id, listing_eligible(items[id]))

\* Lines 180-187: the items that are not skipped.
listed(id) ==
  LET item == items[id]
      has_recipe == "recipe" \in DOMAIN item /\ truthy(item.recipe)
      has_upgrade_cost == "upgradeCost" \in DOMAIN item /\ truthy(item.upgradeCost)
  IN has_recipe \/ has_upgrade_cost \/ listing_tier(id).is_weapon_upgrade

\* Lines 207-214.  has_recipe is the value of the `and` expression: False when
\* the record has no recipe, else the recipe dict itself.
listing_record(id) ==
  LET item == items[id]
  IN [id |-> id,
      name |-> resolve_name(item, id),
      image |-> resolve_image(item, id, listing_tier(id)),
      rarity |-> get(item, "rarity", "Common"),
      type |-> get(item, "type", "Unknown"),
      has_recipe |-> IF "recipe" \in DOMAIN item THEN item.recipe ELSE FALSE]

get_items_results ==
  LET shown == {id \in DOMAIN items : listed(id)}
      key == [id \in shown |-> lower(resolve_name(items[id], id))]
  IN {[k \in 1..Len(order) |-> listing_record(order[k])] : order \in sorted(shown, key)}

(***************************************************************************)
(* POST /api/calculate and POST /api/expand: lines 229-238 and 253-262.    *)
(***************************************************************************)
display_line(id, quantity) ==
  get_item_info(id) @@ [quantity |-> quantity, can_expand |-> ~is_base_resource(id)]

display_results(reqs) ==
  LET key == [id \in DOMAIN reqs |-> get_item_info(id).name]
  IN {[k \in 1..Len(order) |-> display_line(order[k], reqs[order[k]])] :
        order \in sorted(DOMAIN reqs, key)}

(***************************************************************************)
(* RecipeCalculator.load_items: the catalogs the model starts from.        *)
(***************************************************************************)
\* A loaded record: load_items keeps a record only if it has an id, under it.
record(id, fields) == ("id" :> id) @@ fields

\* The catalog of the end-to-end scenario, and one upgrade tier.
Background ==
  (wood :> record(wood, EmptyDict)) @@
  (plank :> record(plank, "recipe" :> (wood :> 2))) @@
  (table :> record(table, "recipe" :> (plank :> 4))) @@
  (rifle_ii :> record(rifle_ii, "upgradeCost" :> (wood :> 1)))

Ingredients == {wood, rifle_ii}
Costs == UNION {[S -> 1..MaxPerUnit] : S \in SUBSET Ingredients}

optional(field, values) == {EmptyDict} \cup {field :> v : v \in values}

ProductionFields ==
  {r @@ u : r \in optional("recipe", Costs), u \in optional("upgradeCost", Costs)}

LoadedIds == {plank, rifle_ii, rifle_iii}

Loaded ==
  /\ op = "init"
  /\ item_id = None
  /\ is_weapon = FALSE
  /\ previous = None
  /\ weapon_info = EmptyDict
  /\ start = None
  /\ steps = 0
  /\ selected = EmptyDict
  /\ requirements = EmptyDict
  /\ response = <<>>
  /\ info = EmptyDict
  /\ is_base = FALSE
  /\ round = 0

\* One more file is loaded over the background; a duplicate id overwrites.
Init ==
  /\ Loaded
  /\ \E id \in LoadedIds, fields \in ProductionFields :
       items = (id :> record(id, fields)) @@ Background

(***************************************************************************)
(* Requests.  The catalog is read-only, so every request is served from    *)
(* the state load_items left.                                              *)
(***************************************************************************)
SelectIds == {table, plank, rifle_ii, rifle_iii, unknown_item}

Selections ==
  {EmptyDict}
  \cup {a :> q : a \in SelectIds, q \in 1..MaxQty}
  \cup {(pair[1] :> q) @@ (pair[2] :> n) :
          pair \in {p \in SelectIds \X SelectIds : p[1] # p[2]},
          q \in 1..MaxQty, n \in 1..MaxQty}

\* calculate_resources: the body may lack "items" (line 224).
Calculate ==
  /\ op = "init"
  /\ \E data \in optional("items", Selections) :
       LET selected_items == get(data, "items", EmptyDict)
       IN /\ selected' = selected_items
          /\ requirements' = get_direct_requirements(selected_items)
  /\ response' \in display_results(requirements')
  /\ op' = "calculate"
  /\ UNCHANGED <<items, item_id, is_weapon, previous, weapon_info, start, steps,
                 info, is_base, round>>

\* calculate_resources on the requirements the last response listed.
CalculateAgain ==
  /\ op \in {"calculate", "expand"}
  /\ round < MaxRounds
  /\ requirements # EmptyDict
  /\ selected' = requirements
  /\ requirements' = get_direct_requirements(requirements)
  /\ response' \in display_results(requirements')
  /\ op' = "calculate"
  /\ round' = round + 1
  /\ UNCHANGED <<items, item_id, is_weapon, previous, weapon_info, start, steps,
                 info, is_base>>

\* expand_item: the body may lack "item_id" (400) or "quantity" (1).
Expand ==
  /\ op = "init"
  /\ \E i \in optional("item_id", SelectIds), q \in optional("quantity", 1..MaxQty) :
       LET data == i @@ q
           id == get(data, "item_id", None)
           quantity == get(data, "quantity", 1)
       IN IF id = None
          THEN /\ op' = "expand_400"
               /\ response' = [error |-> "item_id required"]
               /\ UNCHANGED <<item_id, selected, requirements>>
          ELSE /\ op' = "expand"
               /\ item_id' = id
               /\ selected' = (id :> quantity)
               /\ requirements' = get_direct_requirements(id :> quantity)
               /\ response' \in display_results(requirements')
  /\ UNCHANGED <<items, is_weapon, previous, weapon_info, start, steps,
                 info, is_base, round>>

\* get_items
GetItems ==
  /\ op = "init"
  /\ op' = "items"
  /\ response' \in get_items_results
  /\ UNCHANGED <<items, item_id, is_weapon, previous, weapon_info, start, steps,
                 selected, requirements, info, is_base, round>>

InfoIds == DOMAIN Background \cup {rifle_i, rifle_iii, unknown_item}

ItemInfo ==
  /\ op = "init"
  /\ \E id \in InfoIds :
       /\ item_id' = id
       /\ info' = get_item_info(id)
  /\ op' = "info"
  /\ UNCHANGED <<items, is_weapon, previous, weapon_info, start, steps,
                 selected, requirements, response, is_base, round>>

BaseResource ==
  /\ op = "init"
  /\ \E id \in InfoIds :
       /\ item_id' = id
       /\ is_base' = is_base_resource(id)
  /\ op' = "base"
  /\ UNCHANGED <<items, is_weapon, previous, weapon_info, start, steps,
                 selected, requirements, response, info, round>>

Next == Calculate \/ CalculateAgain \/ Expand \/ GetItems \/ ItemInfo \/ BaseResource

Spec == Init /\ [][Next]_vars

(***************************************************************************)
(* Catalogs that vary the display fields of one record.                    *)
(***************************************************************************)
\* The name field: absent, a str, a dict with an "en" entry, a dict without.
NameFields ==
  << EmptyDict,
     "name" :> [str |-> <<"R">>],
     "name" :> [dict |-> ("en" :> <<"p">>) @@ ("fr" :> <<"F">>)],
     "name" :> [dict |-> ("fr" :> <<"F">>)] >>

DisplayFields ==
  {t @@ i @@ y @@ r @@ u :
     t \in optional("type", {"Weapon", "Modification"}),
     i \in optional("imageFilename", {<<>>, <<"x", ".png">>}),
     y \in optional("rarity", {"Rare"}),
     r \in optional("recipe", {EmptyDict, wood :> 1}),
     u \in optional("upgradeCost", {EmptyDict, wood :> 1})}

DisplayIds == {plank, rifle_i, rifle_ii}

InitDisplay ==
  /\ Loaded
  /\ \E id \in DisplayIds, fields \in DisplayFields, n \in 1..Len(NameFields) :
       items = (id :> record(id, fields @@ NameFields[n])) @@ Background

NextDisplay == GetItems \/ ItemInfo \/ BaseResource

SpecDisplay == InitDisplay /\ [][NextDisplay]_vars

(***************************************************************************)
(* The tier convention as the specification words it: what an identifier's *)
(* suffix says, case by case.                                              *)
(***************************************************************************)
TierI == <<"_", "i">>
TierII == <<"_", "i", "i">>
TierIII == <<"_", "i", "i", "i">>
TierIV == <<"_", "i", "v">>
TierSuffixes == {TierI, TierII, TierIII, TierIV}

IsTier(id) == \E s \in TierSuffixes : endswith(id, s)
TierOf(id) == CHOOSE s \in TierSuffixes : endswith(id, s)
TierBase(id) == drop_last(id, Len(TierOf(id)))
Numeral(s) == IF s = TierI THEN "I" ELSE IF s = TierII THEN "II"
              ELSE IF s = TierIII THEN "III" ELSE "IV"
LowerNumeral(s) == IF s = TierI THEN null ELSE IF s = TierII THEN "I"
                   ELSE IF s = TierIII THEN "II" ELSE "III"

\* C7: get_previous_upgrade_level turns a trailing _iv, _iii, _ii into _iii,
\* _ii, _i and returns None for every other identifier; followed repeatedly
\* from a tier it stops, after at most three steps, at tier I of the same base.
C7_PreviousLevel ==
  op = "previous" =>
    /\ endswith(item_id, TierIV) => previous = drop_last(item_id, 3) \o TierIII
    /\ endswith(item_id, TierIII) => previous = drop_last(item_id, 4) \o TierII
    /\ endswith(item_id, TierII) => previous = drop_last(item_id, 3) \o TierI
    /\ ~(endswith(item_id, TierIV) \/ endswith(item_id, TierIII) \/ endswith(item_id, TierII))
         => previous = None
    /\ steps <= 3
    /\ previous = None =>
         IF IsTier(start) THEN item_id = TierBase(start) \o TierI
         ELSE item_id = start /\ steps = 0

C7_Witness ==
  /\ op = "previous"
  /\ start = <<"r">> \o TierIV
  /\ item_id = <<"r">> \o TierI
  /\ steps = 3
  /\ previous = None

\* C3: get_weapon_upgrade_info(id, True) on an identifier ending in a tier
\* suffix returns the base identifier, the tier's numeral and the numeral of
\* the previous tier (None for tier I); with the flag False it is not a tier.
C3_TierInfo ==
  op = "tier" =>
    IF is_weapon /\ IsTier(item_id)
    THEN weapon_info = [is_weapon_upgrade |-> TRUE,
                        base_name |-> TierBase(item_id),
                        upgrade_level |-> Numeral(TierOf(item_id)),
                        previous_level |-> LowerNumeral(TierOf(item_id))]
    ELSE ~is_weapon => weapon_info = [is_weapon_upgrade |-> FALSE]

(***************************************************************************)
(* The expansion contract as the specification words it.                   *)
(***************************************************************************)
Answered == op \in {"calculate", "expand"}

HasUpgradeCost(id) ==
  id \in DOMAIN items /\ "upgradeCost" \in DOMAIN items[id] /\ DOMAIN items[id].upgradeCost # {}

HasRecipe(id) ==
  id \in DOMAIN items /\ "recipe" \in DOMAIN items[id] /\ DOMAIN items[id].recipe # {}

\* The previous-tier identifier as a set: empty below tier II.
PreviousTier(id) ==
  IF IsTier(id) /\ TierOf(id) # TierI
  THEN {TierBase(id) \o (IF TierOf(id) = TierII THEN TierI
                         ELSE IF TierOf(id) = TierIII THEN TierII ELSE TierIII)}
  ELSE {}

\* What q units of an upgrade cost ask for: n * q of every ingredient and q of
\* the previous tier, summed where the two name the same item.
UpgradeOf(id, q) ==
  LET cost == items[id].upgradeCost
  IN [k \in DOMAIN cost \cup PreviousTier(id) |->
        (IF k \in DOMAIN cost THEN cost[k] * q ELSE 0)
        + (IF k \in PreviousTier(id) THEN q ELSE 0)]

RecipeOf(id, q) == [k \in DOMAIN items[id].recipe |-> items[id].recipe[k] * q]

\* A production field of a catalog record, empty when the record lacks it.
Field(id, field) == get(get(items, id, EmptyDict), field, EmptyDict)

Single == Cardinality(DOMAIN selected) = 1
TheItem == CHOOSE id \in DOMAIN selected : TRUE

\* C1: for an item with a non-empty upgradeCost and a quantity q, the result is
\* exactly n * q under every ingredient of upgradeCost plus q under the
\* previous-tier identifier when the id ends in _ii, _iii or _iv.
C1_UpgradeCost ==
  (Answered /\ Single /\ HasUpgradeCost(TheItem))
    => requirements = UpgradeOf(TheItem, selected[TheItem])

C1_Witness ==
  /\ op = "expand"
  /\ selected = (rifle_iii :> 2)
  /\ Field(rifle_iii, "upgradeCost") = (wood :> 3) @@ (rifle_ii :> 1)
  /\ requirements = (wood :> 6) @@ (rifle_ii :> 4)

\* C2: for an item with a non-empty recipe and no upgradeCost, the result maps
\* every recipe ingredient to recipe[ingredient] * n and holds nothing else; an
\* ingredient that has a recipe of its own is returned unexpanded.
C2_Recipe ==
  (Answered /\ Single /\ HasRecipe(TheItem) /\ ~HasUpgradeCost(TheItem))
    => /\ requirements = RecipeOf(TheItem, selected[TheItem])
       /\ selected = (table :> 1) => requirements = (plank :> 4)

C2_Witness ==
  /\ op = "calculate"
  /\ round = 1
  /\ Field(plank, "recipe") = (wood :> 2)
  /\ selected = (plank :> 4)
  /\ requirements = (wood :> 8)

RECURSIVE SumOver(_, _)
\* Sum of f[k] over k in S.
SumOver(S, f) ==
  IF S = {} THEN 0
  ELSE LET k == CHOOSE k \in S : TRUE IN f[k] + SumOver(S \ {k}, f)

\* C4: the quantity returned for an ingredient is the sum, over the selected
\* items, of what each item alone asks of it.
C4_Additive ==
  Answered =>
    LET alone == [id \in DOMAIN selected |-> get_direct_requirements(id :> selected[id])]
        keys == UNION {DOMAIN alone[id] : id \in DOMAIN selected}
    IN /\ DOMAIN requirements = keys
       /\ \A k \in keys :
            requirements[k] =
              SumOver(DOMAIN selected, [id \in DOMAIN selected |-> get(alone[id], k, 0)])

C4_Witness ==
  /\ op = "calculate"
  /\ selected = (plank :> 1) @@ (rifle_ii :> 1)
  /\ Field(plank, "recipe") = (wood :> 2)
  /\ Field(rifle_ii, "upgradeCost") = (wood :> 2)
  /\ requirements = (wood :> 4) @@ (rifle_i :> 1)

\* C5: an identifier absent from the catalog is a base resource, contributes
\* nothing to an expansion, alone or among known items, and raises no error.
C5_Unknown ==
  /\ (op = "base" /\ item_id \notin DOMAIN items) => is_base
  /\ Answered =>
       LET known_part == [id \in DOMAIN selected \cap DOMAIN items |-> selected[id]]
       IN /\ DOMAIN selected \cap DOMAIN items = {} => requirements = EmptyDict
          /\ requirements = get_direct_requirements(known_part)
          /\ \A n \in 1..Len(response) :
               response[n].id \notin DOMAIN items => ~response[n].can_expand
  /\ op = "expand_400" => item_id = None
  /\ (op = "info" /\ item_id \notin DOMAIN items) =>
       /\ info.name = item_id
       /\ info.rarity = "Common"
       /\ info.type = "Unknown"

C5_Witness ==
  /\ op = "calculate"
  /\ selected = (unknown_item :> 2) @@ (rifle_ii :> 1)
  /\ Field(rifle_ii, "upgradeCost") = (wood :> 1)
  /\ requirements = (wood :> 1) @@ (rifle_i :> 1)
  /\ \E n \in 1..Len(response) : response[n].id = rifle_i /\ ~response[n].can_expand

\* C6: when both upgradeCost and recipe are non-empty only upgradeCost is
\* honoured; the recipe is used only when upgradeCost is absent or empty.
C6_Precedence ==
  (Answered /\ Single /\ HasRecipe(TheItem)) =>
    LET id == TheItem
        q == selected[id]
    IN IF HasUpgradeCost(id)
       THEN /\ requirements = UpgradeOf(id, q)
            /\ \A k \in DOMAIN items[id].recipe :
                 (k \notin DOMAIN items[id].upgradeCost /\ k \notin PreviousTier(id))
                   => k \notin DOMAIN requirements
       ELSE DOMAIN requirements = DOMAIN items[id].recipe

C6_Witness ==
  /\ op = "expand"
  /\ selected = (rifle_iii :> 1)
  /\ Field(rifle_iii, "recipe") = (wood :> 2)
  /\ Field(rifle_iii, "upgradeCost") = (rifle_ii :> 1)
  /\ requirements = (rifle_ii :> 2)

\* C9: with positive input and catalog quantities the result has no zero or
\* negative entry, however often the output is fed back as input.
C9_Positive ==
  Answered => \A k \in DOMAIN requirements : requirements[k] > 0

C9_Witness ==
  /\ op = "calculate"
  /\ round >= 2
  /\ requirements # EmptyDict
  /\ \A k \in DOMAIN selected : selected[k] > 0

(***************************************************************************)
(* The display record.                                                     *)
(***************************************************************************)
TheRecord == get(items, item_id, EmptyDict)

DisplayKeys == {"id", "name", "image", "rarity", "type"}

\* C10: every record of the /api/items listing has the id, name, image,
\* rarity and type that get_item_info returns for the same identifier.
C10_ListingMatchesInfo ==
  op = "items" =>
    \A n \in 1..Len(response) :
      \A key \in DisplayKeys : response[n][key] = get_item_info(response[n].id)[key]

====
